---- MODULE Spec2Model ----
(***************************************************************************)
(* A model of the LC-3 virtual machine of src/main.c (the complete main,   *)
(* lines 258-869) with the declarations of main.h (src/unnamed/part_001).  *)
(* Machine words are 16 bits wide; C's integer promotions are kept: a sum  *)
(* of two uint16_t values is an int and wraps only where it is assigned    *)
(* to a uint16_t.                                                          *)
(***************************************************************************)
EXTENDS Integers, Sequences, FiniteSets, TLC

(* ---------------------------------------------------------------- bounds *)
\* Number of words of the loaded image (placed at PC_START).
ProgLen == 2
\* Number of fetch/execute cycles explored.
MaxCycles == 3
\* Number of bytes that can wait in the host's input buffer.
MaxKeys == 1
\* Number of 16-bit words of the longest image file (the origin included).
MaxFileWords == 3

\* The largest of the small words sign_extend is tried on (all of 0..MaxSmallWord).
MaxSmallWord == 63

(* ------------------------------------------------------ program constants *)
MEMORY_MAX == 65536
PC_START == \h3000

R_R0 == 0
R_R7 == 7
R_PC == 8
R_COND == 9
R_COUNT == 10

OP_BR == 0
OP_ADD == 1
OP_LD == 2
OP_ST == 3
OP_JSR == 4
OP_AND == 5
OP_LDR == 6
OP_STR == 7
OP_RTI == 8
OP_NOT == 9
OP_LDI == 10
OP_STI == 11
OP_JMP == 12
OP_RES == 13
OP_LEA == 14
OP_TRAP == 15

FL_POS == 1
FL_ZRO == 2
FL_NEG == 4

TRAP_GETC == 32
TRAP_OUT == 33
TRAP_PUTS == 34
TRAP_IN == 35
TRAP_PUTSP == 36
TRAP_HALT == 37

\* Console mode bits of the Windows console API used by disable_input_buffering.
ENABLE_LINE_INPUT == 2
ENABLE_ECHO_INPUT == 4

\* Device register addresses named by the specification (the code has none).
KBSR == \hFE00
KBDR == \hFE02

\* getchar()'s end-of-file / error result.
EOF == -1

\* The lines of text the code prints, as tokens in the output stream
\* (bytes written with putc/putchar are 0..255).
DebugLine == 1000
RtiLine == 1001
ResLine == 1002
InPrompt == 1003
NewLine == 1004

(* --------------------------------------------------------- bit arithmetic *)
RECURSIVE Pow2(_)
Pow2(n) == IF n = 0 THEN 1 ELSE 2 * Pow2(n - 1)

\* x >> n on a non-negative value
Shr(x, n) == x \div Pow2(n)

RECURSIVE BitAndN(_, _, _)
BitAndN(a, b, n) ==
    IF n = 0 THEN 0
    ELSE ((a % 2) * (b % 2)) + 2 * BitAndN(a \div 2, b \div 2, n - 1)

RECURSIVE BitOrN(_, _, _)
BitOrN(a, b, n) ==
    IF n = 0 THEN 0
    ELSE (IF (a % 2) + (b % 2) > 0 THEN 1 ELSE 0)
         + 2 * BitOrN(a \div 2, b \div 2, n - 1)

RECURSIVE BitXorN(_, _, _)
BitXorN(a, b, n) ==
    IF n = 0 THEN 0
    ELSE (((a % 2) + (b % 2)) % 2) + 2 * BitXorN(a \div 2, b \div 2, n - 1)

\* a & b, a | b, a ^ b on int operands (32 bits, non-negative here)
BitAnd(a, b) == BitAndN(a, b, 32)
BitOr(a, b) == BitOrN(a, b, 32)
BitXor(a, b) == BitXorN(a, b, 32)

\* conversion of an int to uint16_t
U16(x) == x % 65536

\* ~x assigned to a uint16_t
Not16(x) == 65535 - x

\* sign_extend without the extension: the field taken as an unsigned number
zero_extend(x, bit_count) == x

\* The low 16 bits of the int 0xFFFF << bit_count, which are all that the
\* assignment to a uint16_t keeps. With bit_count = 16 the shifted value needs
\* 32 bits; the compilers of the Windows build shift the bit pattern, which
\* leaves no one in the low 16 bits.
ShiftedOnes(bit_count) == (65535 % Pow2(16 - bit_count)) * Pow2(bit_count)

\* uint16_t sign_extend(uint16_t x, int bit_count)
sign_extend(x, bit_count) ==
    IF BitAnd(Shr(x, bit_count - 1), 1) # 0
    THEN U16(BitOr(x, ShiftedOnes(bit_count)))
    ELSE x

(* ------------------------------------------------------------------ state *)
VARIABLES
    pos,        \* where main is: the next step it takes, or how the process ended
    memory,     \* uint16_t memory[MEMORY_MAX]; only the non-zero cells are kept
    reg,        \* uint16_t reg[R_COUNT]
    running,    \* main's local `running`
    instr,      \* main's local `instr`, the word fetched in this cycle
    fetched,    \* the address instr was fetched from
    access,     \* the indices of memory[] used by the instruction just executed
    hStdin,     \* the global console handle
    fdwOldMode, \* the console mode saved by disable_input_buffering
    fdwMode,    \* the console mode computed by disable_input_buffering
    console,    \* the host console's current input mode
    origMode,   \* the host console's input mode when the process started
    handler,    \* TRUE once signal(SIGINT, handle_interrupt) has been called
    stdin,      \* bytes waiting in the host's input buffer
    out,        \* what the current cycle has written to stdout
    exitStatus, \* <<status>> once the process has called exit or returned from main
    cycles,     \* number of instructions fetched
    argv,       \* the image files named on the command line and not yet loaded
    bigEndian,  \* TRUE on a host that stores the high byte of a word first
    args,       \* <<x, bit_count>> while a call of sign_extend is under way
    result      \* <<value>> once that call has returned

vars == <<pos, memory, reg, running, instr, fetched, access, hStdin, fdwOldMode,
          fdwMode, console, origMode, handler, stdin, out, exitStatus, cycles,
          argv, bigEndian, args, result>>

cpu == <<memory, reg, running, instr, fetched, access, cycles>>
term == <<hStdin, fdwOldMode, fdwMode, console, origMode>>
aside == <<argv, bigEndian, args, result>>

\* memory[i] for an index inside the array (cells never written are zero)
MemAt(m, i) == IF i \in DOMAIN m THEN m[i] ELSE 0

\* memory[i] = v for an index inside the array
MemSet(m, i, v) ==
    IF v = 0
    THEN [a \in (DOMAIN m) \ {i} |-> m[a]]
    ELSE [a \in (DOMAIN m) \cup {i} |-> IF a = i THEN v ELSE m[a]]

(* ----------------------------------------------------------- the inputs *)
\* The words an image is made of: every opcode, with the operand layouts the
\* instruction set distinguishes, and the data words the programs use.
InstrSet == {
    \h0000,  \* BR with nzp = 000 (also the content of unloaded memory)
    \h0E01,  \* BRnzp +1
    \h1021,  \* ADD R0, R0, #1
    \h127F,  \* ADD R1, R1, #-1
    \h5241,  \* AND R1, R1, R1
    \h5260,  \* AND R1, R1, #0
    \h923F,  \* NOT R1, R0
    \h2000,  \* LD R0, #0
    \h23FF,  \* LD R1, #-1
    \h3200,  \* ST R1, #0
    \h31FF,  \* ST R0, #-1
    \h4801,  \* JSR +1
    \h4040,  \* JSRR R1
    \h41C0,  \* JSRR R7
    \h6041,  \* LDR R0, R1, #1
    \h7041,  \* STR R0, R1, #1
    \h8000,  \* RTI
    \hD000,  \* reserved opcode
    \hA000,  \* LDI R0, #0
    \hB000,  \* STI R0, #0
    \hC040,  \* JMP R1
    \hC200,  \* opcode JMP with bits [11:9] = 1 and bits [8:6] = 0
    \hE201,  \* LEA R1, #1
    \hF020,  \* TRAP GETC
    \hF021,  \* TRAP OUT
    \hF022,  \* TRAP PUTS
    \hF023,  \* TRAP IN
    \hF024,  \* TRAP PUTSP
    \hF025,  \* TRAP HALT
    \hFE00   \* TRAP with an unassigned vector; as data, the address 0xFE00
}

\* The bytes the host keyboard can deliver.
Keys == {65}

\* The input modes the console can be in when the process starts
\* (7: processed + line + echo; 3: processed + line, echo already off).
OrigModes == {7, 3}

\* What a read outside an array can yield: a zero, a negative and a positive word.
UBValues == {0, \h8000, 1}

\* memory[] after read_image has stored the words w at origin, origin + 1, ...
Image(origin, w) ==
    [a \in {origin + (i - 1) : i \in {j \in DOMAIN w : w[j] # 0}}
        |-> w[(a - origin) + 1]]

Programs == [1..ProgLen -> InstrSet]

(* ------------------------------------------------------------------- Init *)
\* The process after the images are loaded (main, lines 472-487), about to
\* call signal().
Init ==
    /\ pos = "signal"
    /\ \E w \in Programs : memory = Image(PC_START, w)
    /\ reg = [r \in 0..(R_COUNT - 1) |-> 0]
    /\ running = TRUE
    /\ instr = 0
    /\ fetched = 0
    /\ access = {}
    /\ hStdin = "INVALID_HANDLE_VALUE"
    /\ fdwOldMode = 0
    /\ fdwMode = 0
    /\ origMode \in OrigModes
    /\ console = origMode
    /\ handler = FALSE
    /\ stdin = <<>>
    /\ out = <<>>
    /\ exitStatus = <<>>
    /\ cycles = 0
    /\ argv = <<>>
    /\ bigEndian = FALSE
    /\ args = <<>>
    /\ result = <<>>

Alive == pos \notin {"exited", "aborted", "crashed", "killed"}

(* ------------------------------------------------------ terminal handling *)
\* signal(SIGINT, handle_interrupt)
InstallHandler ==
    /\ pos = "signal"
    /\ handler' = TRUE
    /\ pos' = "GetStdHandle"
    /\ UNCHANGED <<aside, cpu, term, stdin, out, exitStatus>>

\* disable_input_buffering: hStdin = GetStdHandle(STD_INPUT_HANDLE)
GetStdHandle ==
    /\ pos = "GetStdHandle"
    /\ hStdin' = "STD_INPUT_HANDLE"
    /\ pos' = "GetConsoleMode"
    /\ UNCHANGED <<aside, cpu, fdwOldMode, fdwMode, console, origMode, handler, stdin,
                   out, exitStatus>>

\* disable_input_buffering: GetConsoleMode(hStdin, &fdwOldMode)
GetConsoleMode ==
    /\ pos = "GetConsoleMode"
    /\ fdwOldMode' = console
    /\ pos' = "SetConsoleMode"
    /\ UNCHANGED <<aside, cpu, hStdin, fdwMode, console, origMode, handler, stdin, out,
                   exitStatus>>

\* the mode disable_input_buffering computes from the saved one
RawMode(old) == BitXor(BitXor(old, ENABLE_ECHO_INPUT), ENABLE_LINE_INPUT)

\* disable_input_buffering: fdwMode = ...; SetConsoleMode(hStdin, fdwMode)
SetConsoleMode ==
    /\ pos = "SetConsoleMode"
    /\ fdwMode' = RawMode(fdwOldMode)
    /\ console' = fdwMode'
    /\ pos' = "FlushConsoleInputBuffer"
    /\ UNCHANGED <<aside, cpu, hStdin, fdwOldMode, origMode, handler, stdin, out,
                   exitStatus>>

\* disable_input_buffering: FlushConsoleInputBuffer(hStdin)
FlushConsoleInputBuffer ==
    /\ pos = "FlushConsoleInputBuffer"
    /\ stdin' = <<>>
    /\ pos' = "boot"
    /\ UNCHANGED <<aside, cpu, term, handler, out, exitStatus>>

\* The console mode after restore_input_buffering: SetConsoleMode(hStdin,
\* fdwOldMode) fails on the invalid handle and sets the mode otherwise.
restore_input_buffering ==
    IF hStdin = "INVALID_HANDLE_VALUE" THEN console ELSE fdwOldMode

\* handle_interrupt, run when SIGINT arrives with the handler installed
Sigint ==
    /\ Alive
    /\ handler
    /\ console' = restore_input_buffering
    /\ out' = Append(out, NewLine)
    /\ exitStatus' = <<-2>>
    /\ pos' = "exited"
    /\ UNCHANGED <<aside, cpu, hStdin, fdwOldMode, fdwMode, origMode, handler, stdin>>

\* SIGINT before signal() has been called: the default action ends the process
SigintDefault ==
    /\ Alive
    /\ ~handler
    /\ pos' = "killed"
    /\ UNCHANGED <<aside, cpu, term, handler, stdin, out, exitStatus>>

\* The user presses a key: a byte joins the host's input buffer.
Type ==
    /\ Alive
    /\ Len(stdin) < MaxKeys
    /\ \E k \in Keys : stdin' = Append(stdin, k)
    /\ UNCHANGED <<aside, pos, cpu, term, handler, out, exitStatus>>

(* ------------------------------------------------------------- the machine *)
\* main without line 495: the PC and running are set, COND keeps its zero
BootWithoutFlag ==
    /\ pos = "boot"
    /\ reg' = [reg EXCEPT ![R_PC] = PC_START]
    /\ running' = TRUE
    /\ pos' = "loop"
    /\ UNCHANGED <<aside, memory, instr, fetched, access, cycles, term, handler, stdin,
                   out, exitStatus>>

\* main, lines 495-507: COND = Z, PC = PC_START, running = 1
Boot ==
    /\ pos = "boot"
    /\ reg' = [reg EXCEPT ![R_COND] = FL_ZRO, ![R_PC] = PC_START]
    /\ running' = TRUE
    /\ pos' = "loop"
    /\ UNCHANGED <<aside, memory, instr, fetched, access, cycles, term, handler, stdin,
                   out, exitStatus>>

\* reg[R_PC]++ with the PC held in a wider integer: no wrap at 0xFFFF
Inc16NoWrap(x) == x + 1

\* reg[R_PC]++ on a uint16_t
Inc16(x) == U16(x + 1)

\* while (running) { instr = memory[reg[R_PC]++]; ... } restore; return 0
LoopTop ==
    /\ pos = "loop"
    /\ IF running
       THEN /\ cycles < MaxCycles
            /\ instr' = MemAt(memory, reg[R_PC])
            /\ fetched' = reg[R_PC]
            /\ reg' = [reg EXCEPT ![R_PC] = Inc16(reg[R_PC])]
            /\ cycles' = cycles + 1
            /\ access' = {}
            /\ out' = <<DebugLine>>
            /\ pos' = "execute"
            /\ UNCHANGED <<aside, memory, running, term, handler, stdin, exitStatus>>
       ELSE /\ console' = restore_input_buffering
            /\ exitStatus' = <<0>>
            /\ pos' = "exited"
            /\ UNCHANGED <<aside, cpu, hStdin, fdwOldMode, fdwMode, origMode, handler,
                           stdin, out>>

(* ------------------------------------------------------------ decoding *)
op == Shr(instr, 12)
\* (instr >> 9) & 0x7, (instr >> 6) & 0x7, instr & 0x7
Bits11_9 == BitAnd(Shr(instr, 9), 7)
Bits8_6 == BitAnd(Shr(instr, 6), 7)
Bits2_0 == BitAnd(instr, 7)
imm_flag == BitAnd(Shr(instr, 5), 1)
imm5 == sign_extend(BitAnd(instr, \h1F), 5)
offset6 == sign_extend(BitAnd(instr, \h3F), 6)
pc_offset == sign_extend(BitAnd(instr, \h1FF), 9)
long_flag == BitAnd(Shr(instr, 11), 1)
\* the JSR offset taken from nine bits only, as the other PC-relative cases do
nine_bit_offset == sign_extend(BitAnd(instr, \h1FF), 9)
long_pc_offset == sign_extend(BitAnd(instr, \h7FF), 11)
trapvect == BitAnd(instr, \hFF)

(* ------------------------------------------------------- flags and memory *)
\* the flag update_flags stores for the value v
FlagOf(v) ==
    IF v = 0 THEN FL_ZRO
    ELSE IF Shr(v, 15) # 0 THEN FL_NEG
    ELSE FL_POS

\* what reg[r] can yield: the slot's value, or any word when r is not a slot
RegRead(rg, r) == IF r < R_COUNT THEN {rg[r]} ELSE UBValues

\* void update_flags(uint16_t r): the register files it can leave
update_flags(rg, r) ==
    {[rg EXCEPT ![R_COND] = FlagOf(v)] : v \in RegRead(rg, r)}

\* what memory[i] can yield, i being the int the index expression evaluates to
Read(i) == IF i < MEMORY_MAX THEN {MemAt(memory, i)} ELSE UBValues

\* The ways one instruction can end: the loop goes on, or the process faults.
Ok(rg, m, acc) == [reg |-> rg, memory |-> m, pos |-> "loop", access |-> acc]
Fault(acc) == [reg |-> reg, memory |-> memory, pos |-> "crashed", access |-> acc]

\* an access at index i outside memory[] can fault
Faults(i, acc) == IF i < MEMORY_MAX THEN {} ELSE {Fault(acc)}

\* memory[i] = v: inside the array the cell is written; outside it the write
\* lands in other storage (unseen, or a slot of reg[]) or faults
Store(rg, i, v, acc) ==
    IF i < MEMORY_MAX
    THEN {Ok(rg, MemSet(memory, i, v), acc)}
    ELSE {Ok(rg, memory, acc)}
         \cup {Ok([rg EXCEPT ![k] = v], memory, acc) : k \in 0..(R_COUNT - 1)}
         \cup {Fault(acc)}

\* an instruction that also clears running, as a case ending in running = 0
FinishAndStop(o) ==
    /\ reg' = o.reg
    /\ memory' = o.memory
    /\ access' = o.access
    /\ pos' = o.pos
    /\ running' = FALSE
    /\ UNCHANGED <<aside, instr, fetched, cycles, term, handler, stdin, out, exitStatus>>

\* one instruction of the switch that does no host I/O takes outcome o
Finish(o) ==
    /\ reg' = o.reg
    /\ memory' = o.memory
    /\ access' = o.access
    /\ pos' = o.pos
    /\ UNCHANGED <<aside, running, instr, fetched, cycles, term, handler, stdin, out,
                   exitStatus>>

(* ------------------------------------------------------------ the opcodes *)
\* case OP_BR
ExecBR ==
    /\ pos = "execute" /\ op = OP_BR
    /\ LET cond_flag == Bits11_9
       IN Finish(Ok(IF BitAnd(cond_flag, reg[R_COND]) # 0
                    THEN [reg EXCEPT ![R_PC] = U16(reg[R_PC] + pc_offset)]
                    ELSE reg,
                    memory, {}))

\* case OP_ADD
ExecADD ==
    /\ pos = "execute" /\ op = OP_ADD
    /\ LET dr == Bits11_9
           r1 == Bits8_6
           r2 == Bits2_0
           v == IF imm_flag = 1 THEN U16(reg[r1] + imm5)
                ELSE U16(reg[r1] + reg[r2])
       IN \E rg \in update_flags([reg EXCEPT ![dr] = v], dr) :
              Finish(Ok(rg, memory, {}))

\* case OP_AND
ExecAND ==
    /\ pos = "execute" /\ op = OP_AND
    /\ LET r0 == Bits11_9
           r1 == Bits8_6
           r2 == Bits2_0
           v == IF imm_flag # 0 THEN BitAnd(reg[r1], imm5)
                ELSE BitAnd(reg[r1], reg[r2])
       IN \E rg \in update_flags([reg EXCEPT ![r0] = v], 0) :
              Finish(Ok(rg, memory, {}))

\* case OP_NOT
ExecNOT ==
    /\ pos = "execute" /\ op = OP_NOT
    /\ LET dr == Bits11_9
           sr == Bits8_6
       IN \E rg \in update_flags([reg EXCEPT ![dr] = Not16(reg[sr])], dr) :
              Finish(Ok(rg, memory, {}))

\* the int index of memory[reg[base] + offset]
Index(base, offset) == base + offset

\* case OP_LD
ExecLD ==
    /\ pos = "execute" /\ op = OP_LD
    /\ LET dr == Bits11_9
           i == Index(reg[R_PC], pc_offset)
       IN \E o \in {Ok(rg, memory, {i}) :
                      rg \in UNION {update_flags([reg EXCEPT ![dr] = v], dr) :
                                      v \in Read(i)}}
                   \cup Faults(i, {i}) :
              Finish(o)

\* case OP_ST
ExecST ==
    /\ pos = "execute" /\ op = OP_ST
    /\ LET dr == Bits11_9
           i == Index(reg[R_PC], pc_offset)
       IN \E o \in Store(reg, i, reg[dr], {i}) : Finish(o)

\* case OP_LDR
ExecLDR ==
    /\ pos = "execute" /\ op = OP_LDR
    /\ LET r0 == Bits11_9
           r1 == Bits8_6
           i == Index(reg[r1], offset6)
       IN \E o \in {Ok(rg, memory, {i}) :
                      rg \in UNION {update_flags([reg EXCEPT ![r0] = v], r0) :
                                      v \in Read(i)}}
                   \cup Faults(i, {i}) :
              Finish(o)

\* case OP_STR
ExecSTR ==
    /\ pos = "execute" /\ op = OP_STR
    /\ LET r0 == Bits11_9
           r1 == Bits8_6
           i == Index(reg[r1], offset6)
       IN \E o \in Store(reg, i, reg[r0], {i}) : Finish(o)

\* case OP_LDI
ExecLDI ==
    /\ pos = "execute" /\ op = OP_LDI
    /\ LET dr == Bits11_9
           i == Index(reg[R_PC], pc_offset)
       IN \E o \in UNION {{Ok(rg, memory, {i, addr}) :
                             rg \in update_flags(
                                 [reg EXCEPT ![dr] = MemAt(memory, addr)], dr)} :
                           addr \in Read(i)}
                   \cup Faults(i, {i}) :
              Finish(o)

\* case OP_STI
ExecSTI ==
    /\ pos = "execute" /\ op = OP_STI
    /\ LET sr == Bits11_9
           i == Index(reg[R_PC], pc_offset)
       IN \E o \in UNION {Store(reg, addr, reg[sr], {i, addr}) : addr \in Read(i)}
                   \cup Faults(i, {i}) :
              Finish(o)

\* case OP_JSR with the register jump taken from the registers as they were
\* before the return address is saved
ExecJSRReadFirst ==
    /\ pos = "execute" /\ op = OP_JSR
    /\ LET r7 == [reg EXCEPT ![R_R7] = reg[R_PC]]
           r1 == Bits8_6
       IN Finish(Ok(IF long_flag = 1
                    THEN [r7 EXCEPT ![R_PC] = U16(r7[R_PC] + long_pc_offset)]
                    ELSE [r7 EXCEPT ![R_PC] = reg[r1]],
                    memory, {}))

\* case OP_JSR
ExecJSR ==
    /\ pos = "execute" /\ op = OP_JSR
    /\ LET r7 == [reg EXCEPT ![R_R7] = reg[R_PC]]
           r1 == Bits8_6
       IN Finish(Ok(IF long_flag = 1
                    THEN [r7 EXCEPT ![R_PC] = U16(r7[R_PC] + long_pc_offset)]
                    ELSE [r7 EXCEPT ![R_PC] = r7[r1]],
                    memory, {}))

\* case OP_JMP
ExecJMP ==
    /\ pos = "execute" /\ op = OP_JMP
    /\ LET baseR == Bits11_9
       IN Finish(Ok([reg EXCEPT ![R_PC] = reg[baseR]], memory, {}))

\* case OP_LEA
ExecLEA ==
    /\ pos = "execute" /\ op = OP_LEA
    /\ LET dr == Bits11_9
       IN \E rg \in update_flags(
                        [reg EXCEPT ![dr] = U16(reg[R_PC] + pc_offset)], dr) :
              Finish(Ok(rg, memory, {}))

\* case OP_RTI: a message, and the loop goes on
ExecRTI ==
    /\ pos = "execute" /\ op = OP_RTI
    /\ out' = Append(out, RtiLine)
    /\ access' = {}
    /\ pos' = "loop"
    /\ UNCHANGED <<aside, memory, reg, running, instr, fetched, cycles, term, handler,
                   stdin, exitStatus>>

\* case OP_RES: a message, and the loop goes on
ExecRES ==
    /\ pos = "execute" /\ op = OP_RES
    /\ out' = Append(out, ResLine)
    /\ access' = {}
    /\ pos' = "loop"
    /\ UNCHANGED <<aside, memory, reg, running, instr, fetched, cycles, term, handler,
                   stdin, exitStatus>>

(* --------------------------------------------------------------- the traps *)
\* what getchar() returns: the next byte, or EOF when none is to come
getchar == IF stdin # <<>> THEN Head(stdin) ELSE EOF

\* (char)w written with putc/putchar: the low byte of the word
Byte(w) == w % 256

\* TRAP_PUTS: the bytes written walking str_ptr from memory[a] to the first zero
\* word, and the index the walk stopped at; overrun tells that the walk left
\* memory[] without finding one
RECURSIVE PutsScan(_)
PutsScan(a) ==
    IF a >= MEMORY_MAX THEN [bytes |-> <<>>, stop |-> a, overrun |-> TRUE]
    ELSE IF MemAt(memory, a) = 0 THEN [bytes |-> <<>>, stop |-> a, overrun |-> FALSE]
    ELSE LET rest == PutsScan(a + 1)
         IN [bytes |-> <<Byte(MemAt(memory, a))>> \o rest.bytes,
             stop |-> rest.stop, overrun |-> rest.overrun]

\* The ways the body of the inner switch can end for the vector in instr,
\* with R7 already written: the register file, the input left, the output so
\* far, the indices of memory[] it read, and whether the body faulted.
TrapBody(r7) ==
    CASE trapvect = TRAP_GETC ->
            {[reg |-> rg, stdin |-> IF stdin = <<>> THEN stdin ELSE Tail(stdin),
              out |-> out, access |-> {}, fault |-> FALSE] :
                rg \in update_flags([r7 EXCEPT ![R_R0] = U16(getchar)], R_R0)}
      [] trapvect = TRAP_OUT ->
            {[reg |-> r7, stdin |-> stdin,
              out |-> Append(out, Byte(r7[R_R0])), access |-> {}, fault |-> FALSE]}
      [] trapvect = TRAP_PUTS ->
            LET s == PutsScan(r7[R_R0])
            IN {[reg |-> r7, stdin |-> stdin, out |-> out \o s.bytes,
                 access |-> r7[R_R0]..s.stop,
                 fault |-> f] : f \in IF s.overrun THEN BOOLEAN ELSE {FALSE}}
      [] trapvect = TRAP_IN ->
            LET r0 == [r7 EXCEPT ![R_R0] = U16(getchar)]
            IN {[reg |-> rg, stdin |-> IF stdin = <<>> THEN stdin ELSE Tail(stdin),
                 out |-> out \o <<InPrompt, Byte(r0[R_R0])>>, access |-> {},
                 fault |-> FALSE] :
                   rg \in update_flags(r0, r0[R_R0])}
      [] OTHER ->
            {[reg |-> r7, stdin |-> stdin, out |-> out, access |-> {},
              fault |-> FALSE]}

\* case OP_TRAP: R7 = PC, the inner switch, and then, the case having no
\* break, the default arm's abort()
ExecTRAP ==
    /\ pos = "execute" /\ op = OP_TRAP
    /\ \E t \in TrapBody([reg EXCEPT ![R_R7] = reg[R_PC]]) :
          /\ reg' = t.reg
          /\ stdin' = t.stdin
          /\ out' = t.out
          /\ access' = t.access
          /\ pos' = IF t.fault THEN "crashed" ELSE "aborted"
    /\ UNCHANGED <<aside, memory, running, instr, fetched, cycles, term, handler,
                   exitStatus>>

(* ------------------------------------------------------------------ Next *)
Next ==
    \/ InstallHandler
    \/ GetStdHandle
    \/ GetConsoleMode
    \/ SetConsoleMode
    \/ FlushConsoleInputBuffer
    \/ Boot
    \/ LoopTop
    \/ ExecBR
    \/ ExecADD
    \/ ExecLD
    \/ ExecST
    \/ ExecJSR
    \/ ExecAND
    \/ ExecLDR
    \/ ExecSTR
    \/ ExecRTI
    \/ ExecNOT
    \/ ExecLDI
    \/ ExecSTI
    \/ ExecJMP
    \/ ExecRES
    \/ ExecLEA
    \/ ExecTRAP
    \/ Sigint
    \/ SigintDefault
    \/ Type

Spec == Init /\ [][Next]_vars

(* ------------------------------------------------------------ the loader *)
\* The bytes image files are made of.
FileBytes == {0, \h30, \hFF}

\* The lengths of the files: empty, a lone byte, or whole words.
FileLengths == {0, 1} \cup {2 * n : n \in 1..MaxFileWords}

\* The files a command line can name: one that cannot be opened, or a sequence
\* of bytes.
Files ==
    {[opens |-> FALSE, bytes |-> <<>>]}
    \cup {[opens |-> TRUE, bytes |-> b] :
             b \in UNION {[1..n -> FileBytes] : n \in FileLengths}}

\* The uint16_t fread leaves for two consecutive bytes of the file, b1 first.
HostWord(b1, b2) == IF bigEndian THEN (b1 * 256) + b2 ELSE b1 + (b2 * 256)

\* x = (x << 8) | (x >> 8) on a uint16_t
Swap16(x) == U16(BitOr(x * 256, Shr(x, 8)))

\* read_image: the origin, after the swap
ImageOrigin(b) == Swap16(HostWord(b[1], b[2]))

\* read_image: uint16_t max_read = MEMORY_MAX - origin
max_read(origin) == U16(MEMORY_MAX - origin)

\* read_image: the number of words fread stores (whole words only)
WordsRead(b) ==
    LET n == (Len(b) - 2) \div 2
        max == max_read(ImageOrigin(b))
    IN IF n < max THEN n ELSE max

\* read_image: memory[] after the words of the file are stored at origin,
\* origin + 1, ... and swapped
LoadedMemory(m, b) ==
    LET origin == ImageOrigin(b)
        read == WordsRead(b)
        p == [i \in 0..(read - 1) |->
                 Swap16(HostWord(b[(2 * i) + 3], b[(2 * i) + 4]))]
        written == {origin + i : i \in 0..(read - 1)}
    IN [a \in ((DOMAIN m) \ written)
                 \cup {origin + i : i \in {j \in 0..(read - 1) : p[j] # 0}}
          |-> IF a \in written THEN p[a - origin] ELSE m[a]]

\* int read_image(const char *image_path): 0 when the file cannot be opened
\* or holds no whole origin word, 1 otherwise
read_image(f) == IF f.opens /\ Len(f.bytes) >= 2 THEN 1 ELSE 0

\* main, lines 472-476: without an image argument, the usage line and exit(2)
CheckArgs ==
    /\ pos = "main"
    /\ IF argv = <<>>
       THEN exitStatus' = <<2>> /\ pos' = "exited"
       ELSE pos' = "read_image" /\ UNCHANGED exitStatus
    /\ UNCHANGED <<aside, cpu, term, handler, stdin, out>>

\* main, lines 478-487: the loop over the image arguments, exit(1) on the
\* first one read_image fails on
ReadImage ==
    /\ pos = "read_image"
    /\ IF argv = <<>>
       THEN /\ pos' = "signal"
            /\ UNCHANGED <<memory, argv, exitStatus>>
       ELSE IF read_image(Head(argv)) = 0
       THEN /\ exitStatus' = <<1>>
            /\ pos' = "exited"
            /\ UNCHANGED <<memory, argv>>
       ELSE /\ memory' = LoadedMemory(memory, Head(argv).bytes)
            /\ argv' = Tail(argv)
            /\ UNCHANGED <<pos, exitStatus>>
    /\ UNCHANGED <<reg, running, instr, fetched, access, cycles, term, handler,
                   stdin, out, bigEndian, args, result>>

\* The process as main is entered: nothing loaded, at most one image named, on
\* a host of either byte order, the console in mode 7.
LoadInit ==
    /\ pos = "main"
    /\ argv \in {<<>>} \cup {<<f>> : f \in Files}
    /\ bigEndian \in BOOLEAN
    /\ memory = Image(0, <<>>)
    /\ reg = [r \in 0..(R_COUNT - 1) |-> 0]
    /\ running = TRUE
    /\ instr = 0
    /\ fetched = 0
    /\ access = {}
    /\ hStdin = "INVALID_HANDLE_VALUE"
    /\ fdwOldMode = 0
    /\ fdwMode = 0
    /\ origMode = 7
    /\ console = origMode
    /\ handler = FALSE
    /\ stdin = <<>>
    /\ out = <<>>
    /\ exitStatus = <<>>
    /\ cycles = 0
    /\ args = <<>>
    /\ result = <<>>

LoadNext ==
    \/ CheckArgs
    \/ ReadImage
    \/ InstallHandler
    \/ GetStdHandle
    \/ GetConsoleMode
    \/ SetConsoleMode
    \/ FlushConsoleInputBuffer
    \/ Boot
    \/ LoopTop

LoadSpec == LoadInit /\ [][LoadNext]_vars

(* ------------------------------------------------- one instruction, any operands *)
\* The values R0, R1 and R2 hold at the top of the loop.
StepValues == {0, 1, \h4000, \h8000, \hFFFF}

\* The instruction about to be fetched: ADD and AND with every choice of DR,
\* SR1 in R0..R2 and of second operand (SR2 in R0..R2, imm5 in 0, 1, 15, -16,
\* -1); JSR with offsets +1, +256, -1024, -1; JSRR R0, R1, R7; LDI and STI
\* with offsets +2 and -1; TRAP PUTS and TRAP PUTSP.
StepWords ==
    {(o * 4096) + (dr * 512) + (sr1 * 64) + low :
        o \in {OP_ADD, OP_AND}, dr \in 0..2, sr1 \in 0..2,
        low \in {0, 1, 2, 32, 33, 47, 48, 63}}
    \cup {\h4801, \h4900, \h4C00, \h4FFF, \h4000, \h4040, \h41C0}
    \cup {\hA002, \hA1FF, \hB002, \hB3FF}
    \cup {\hF022, \hF024}

\* Data already in memory[]: a pointer to 0x4000 at 0x3003 and the words
\* 0x0048, 0x0069, 0x0000 ("Hi") from 0x4000.
StepData == (\h3003 :> \h4000) @@ (\h4000 :> \h48) @@ (\h4001 :> \h69)

\* The machine at the top of the loop (main, line 510) with the console, which
\* was in mode 7, in raw mode, about to fetch one of StepWords at 0x3000 or at
\* 0xFFFF, in the last cycle explored.
StepInit ==
    /\ pos = "loop"
    /\ \E w \in StepWords, pc \in {PC_START, \hFFFF}, v \in [0..2 -> StepValues] :
          /\ memory = MemSet(StepData, pc, w)
          /\ reg = [r \in 0..(R_COUNT - 1) |->
                       IF r \in DOMAIN v THEN v[r]
                       ELSE IF r = R_PC THEN pc
                       ELSE IF r = R_COND THEN FL_ZRO
                       ELSE 0]
    /\ running = TRUE
    /\ instr = 0
    /\ fetched = 0
    /\ access = {}
    /\ hStdin = "STD_INPUT_HANDLE"
    /\ origMode = 7
    /\ fdwOldMode = origMode
    /\ fdwMode = RawMode(origMode)
    /\ console = fdwMode
    /\ handler = TRUE
    /\ stdin = <<>>
    /\ out = <<>>
    /\ exitStatus = <<>>
    /\ cycles = MaxCycles - 1
    /\ argv = <<>>
    /\ bigEndian = FALSE
    /\ args = <<>>
    /\ result = <<>>

StepNext ==
    \/ LoopTop
    \/ ExecADD
    \/ ExecAND
    \/ ExecJSR
    \/ ExecLDI
    \/ ExecSTI
    \/ ExecTRAP

StepSpec == StepInit /\ [][StepNext]_vars

(* ------------------------------------------------- a store, then a load *)
\* A store of R0 and, next to it, a load into R1 from the same address:
\* ST #2 / LD #1, ST #-1 / LD #-2, STR R2,#1 / LDR R2,#1,
\* STR R2,#-1 / LDR R2,#-1, STI #2 / LDI #1 (through the pointer at 0x3003).
PairPrograms == {
    <<\h3002, \h2201>>,
    <<\h31FF, \h23FE>>,
    <<\h7081, \h6281>>,
    <<\h70BF, \h62BF>>,
    <<\hB002, \hA201>>
}

\* The base addresses R2 holds for STR and LDR.
PairBases == {0, \h4000, \hFFFF}

\* The machine at the top of the loop with such a pair at 0x3000 and 0x3001,
\* the value to store in R0 and the base in R2, two cycles before the last
\* one explored.
PairInit ==
    /\ pos = "loop"
    /\ \E p \in PairPrograms, v \in StepValues, b \in PairBases :
          /\ memory = MemSet(MemSet(StepData, PC_START, p[1]), PC_START + 1, p[2])
          /\ reg = [r \in 0..(R_COUNT - 1) |->
                       IF r = R_R0 THEN v
                       ELSE IF r = 2 THEN b
                       ELSE IF r = R_PC THEN PC_START
                       ELSE IF r = R_COND THEN FL_ZRO
                       ELSE 0]
    /\ running = TRUE
    /\ instr = 0
    /\ fetched = 0
    /\ access = {}
    /\ hStdin = "STD_INPUT_HANDLE"
    /\ origMode = 7
    /\ fdwOldMode = origMode
    /\ fdwMode = RawMode(origMode)
    /\ console = fdwMode
    /\ handler = TRUE
    /\ stdin = <<>>
    /\ out = <<>>
    /\ exitStatus = <<>>
    /\ cycles = MaxCycles - 2
    /\ argv = <<>>
    /\ bigEndian = FALSE
    /\ args = <<>>
    /\ result = <<>>

PairNext ==
    \/ LoopTop
    \/ ExecLD
    \/ ExecST
    \/ ExecLDR
    \/ ExecSTR
    \/ ExecLDI
    \/ ExecSTI

PairSpec == PairInit /\ [][PairNext]_vars

(* --------------------------------------------- sign_extend, any arguments *)
\* The words sign_extend is called with here: every small one, every single
\* bit, every run of low bits, and four mixed patterns.
ExtendWords ==
    (0..MaxSmallWord) \cup {Pow2(k) : k \in 0..15} \cup {Pow2(k) - 1 : k \in 1..16}
        \cup {\h5555, \hAAAA, \h8001, \hFFF0}

\* The bit counts sign_extend is called with here: every width of a uint16_t.
ExtendCounts == 1..16

\* A call sign_extend(x, bit_count) about to be made, nothing else going on.
ExtendInit ==
    /\ pos = "sign_extend"
    /\ args \in ExtendWords \X ExtendCounts
    /\ result = <<>>
    /\ memory = Image(PC_START, <<>>)
    /\ reg = [r \in 0..(R_COUNT - 1) |-> 0]
    /\ running = TRUE
    /\ instr = 0
    /\ fetched = 0
    /\ access = {}
    /\ hStdin = "INVALID_HANDLE_VALUE"
    /\ fdwOldMode = 0
    /\ fdwMode = 0
    /\ origMode = 7
    /\ console = origMode
    /\ handler = FALSE
    /\ stdin = <<>>
    /\ out = <<>>
    /\ exitStatus = <<>>
    /\ cycles = 0
    /\ argv = <<>>
    /\ bigEndian = FALSE

\* The call: the body of sign_extend runs on the arguments and returns.
CallSignExtend ==
    /\ pos = "sign_extend"
    /\ result' = <<sign_extend(args[1], args[2])>>
    /\ pos' = "returned"
    /\ UNCHANGED <<cpu, term, handler, stdin, out, exitStatus, argv, bigEndian, args>>

ExtendNext == CallSignExtend

ExtendSpec == ExtendInit /\ [][ExtendNext]_vars

(* ---------------------------------------------------------------- claims *)
\* The instruction in instr has been executed (the switch has run for it).
Executed == cycles > 0 /\ pos \in {"loop", "aborted", "crashed"}

\* The value of the low k bits of the instruction word as a signed number.
Signed(k) ==
    LET f == instr % Pow2(k)
    IN IF f >= Pow2(k - 1) THEN f - Pow2(k) ELSE f

\* The address one word past the one the instruction was fetched from.
PostFetchPC == (fetched + 1) % 65536

\* C1: after every instruction that defines a destination register (ADD, AND,
\* NOT, LD, LDR, LDI, LEA), COND is the one flag that matches the final value
\* of R[DR]: Z if it is 0, N if its bit 15 is 1, P otherwise.
C1_FlagsMatchDR ==
    (pos = "loop" /\ cycles > 0
       /\ op \in {OP_ADD, OP_AND, OP_NOT, OP_LD, OP_LDR, OP_LDI, OP_LEA})
    => reg[R_COND] = (IF reg[Bits11_9] = 0 THEN 2
                      ELSE IF reg[Bits11_9] >= 32768 THEN 4
                      ELSE 1)

\* C2: every memory cell accessed by LD, ST, LDI, STI, LDR and STR has an
\* index in 0x0000..0xFFFF; no access falls outside the 65536-word memory.
C2_AccessInsideMemory ==
    \A i \in access : i \in 0..65535

\* C3: executing TRAP HALT sets running to false and returns to the loop test
\* without ending the process there; the loop then exits, the terminal is
\* restored and the process exits with status 0.
C3_HaltStopsCleanly ==
    /\ (Executed /\ op = OP_TRAP /\ trapvect = TRAP_HALT)
       => (pos = "loop" /\ running = FALSE)
    /\ (pos = "exited" /\ ~running)
       => (exitStatus = <<0>> /\ console = origMode)

\* C4: for the trap vectors GETC, OUT, PUTS, IN and PUTSP, the TRAP instruction
\* sets R7 to the post-fetch PC, leaves PC at the post-fetch PC, and the loop
\* goes on (the emulator does not terminate).
C4_TrapReturns ==
    (Executed /\ op = OP_TRAP
       /\ trapvect \in {TRAP_GETC, TRAP_OUT, TRAP_PUTS, TRAP_IN, TRAP_PUTSP})
    => /\ pos = "loop"
       /\ reg[R_R7] = PostFetchPC
       /\ reg[R_PC] = PostFetchPC

\* C5: executing opcode RTI or RES is fatal: the process has ended, with a
\* nonzero status and the terminal restored, and nothing more is fetched.
C5_IllegalIsFatal ==
    (cycles > 0 /\ pos # "execute" /\ op \in {OP_RTI, OP_RES})
    => /\ pos = "exited"
       /\ exitStatus # <<0>>
       /\ console = origMode

\* C6: JMP sets PC to R[BaseR], BaseR being bits [8:6] of the instruction.
C6_JmpBaseR ==
    (pos = "loop" /\ cycles > 0 /\ op = OP_JMP)
    => reg[R_PC] = reg[(instr \div 64) % 8]

\* The address LD, LDR or LDI is to load from, as the specification defines it.
LoadAddress ==
    CASE op = OP_LD -> (reg[R_PC] + Signed(9)) % 65536
      [] op = OP_LDR -> (reg[(instr \div 64) % 8] + Signed(6)) % 65536
      [] op = OP_LDI -> MemAt(memory, (reg[R_PC] + Signed(9)) % 65536)
      [] OTHER -> 0

\* C7: a load from address 0xFE00 (KBSR) polls the keyboard: with a key
\* waiting, one byte is consumed and placed in the cell at 0xFE02 and the load
\* yields 0x8000; with none, the load yields 0.
C7_KbsrPolls ==
    [][(pos = "execute" /\ pos' = "loop" /\ op \in {OP_LD, OP_LDR, OP_LDI}
          /\ LoadAddress = KBSR)
       => IF stdin # <<>>
          THEN /\ reg'[Bits11_9] = 32768
               /\ MemAt(memory', KBDR) = Head(stdin)
               /\ stdin' = Tail(stdin)
          ELSE reg'[Bits11_9] = 0]_vars

\* C8: between the fetch and the execution of an instruction the PC is
\* incremented by exactly one modulo 2^16, and every PC-relative computation
\* (BR, LD, ST, LDI, STI, LEA, JSR) and every save of PC into R7 uses that
\* post-fetch PC.
C8_PostFetchPC ==
    /\ pos = "execute" => reg[R_PC] = PostFetchPC
    /\ (Executed /\ op = OP_BR) =>
          reg[R_PC] = (IF BitAnd(Bits11_9, reg[R_COND]) # 0
                       THEN (PostFetchPC + Signed(9)) % 65536
                       ELSE PostFetchPC)
    /\ (Executed /\ op = OP_LEA) =>
          reg[Bits11_9] = (PostFetchPC + Signed(9)) % 65536
    /\ (Executed /\ op = OP_JSR) =>
          /\ long_flag = 1 => reg[R_PC] = (PostFetchPC + Signed(11)) % 65536
          /\ reg[R_R7] = PostFetchPC
    /\ (Executed /\ op = OP_TRAP) => reg[R_R7] = PostFetchPC
    /\ (Executed /\ op \in {OP_LD, OP_ST, OP_LDI, OP_STI}) =>
          \E i \in access : i % 65536 = (PostFetchPC + Signed(9)) % 65536

\* C8's case: an instruction fetched at 0xFFFF, the PC having wrapped to 0.
C8_Witness ==
    pos = "execute" /\ fetched = 65535 /\ reg[R_PC] = 0

\* disable_input_buffering has put the console into raw mode (fdwMode, zero
\* until then, holds the raw mode computed from the console's original mode).
RawModeWasSet == fdwMode = RawMode(origMode)

\* C9: once the console is in raw mode, however the process ends (normal halt,
\* fatal error including the default arm's abort(), or SIGINT), the console
\* mode is back to the value saved at startup.
C9_EveryExitRestores ==
    (pos \in {"exited", "aborted"} /\ RawModeWasSet)
    => console = origMode

\* C10: a SIGINT delivered at any point after the handler is installed leaves
\* the console in its original mode and exits the process with status -2.
\* (The handler's exit is the step that ends the process with exit() and is
\* not main's return at the end of the loop.)
C10_SigintRestores ==
    [][(Alive /\ handler /\ pos' = "exited" /\ ~(pos = "loop" /\ ~running))
       => (console' = origMode /\ exitStatus' = <<-2>>)]_vars

\* C11: running is true when the loop starts, and running is false only in a
\* state whose last executed instruction is a HALT trap (vector 0x25): no other
\* instruction, trap vector or error clears it. (Nothing is fetched once
\* running is false, so the HALT is then the instruction still held in instr.)
C11_OnlyHaltStops ==
    /\ (pos = "loop" /\ cycles = 0) => running = TRUE
    /\ running = FALSE
       => (cycles > 0 /\ pos # "execute" /\ op = OP_TRAP /\ trapvect = TRAP_HALT)

\* C11's case: instructions, a fault or a trap other than HALT have run, and
\* running is still true.
C11_Witness ==
    /\ cycles = MaxCycles
    /\ pos \in {"aborted", "crashed"}
    /\ ~(op = OP_TRAP /\ trapvect = TRAP_HALT)
    /\ running = TRUE

\* The fetch/execute loop has been entered.
Started == pos = "loop" \/ cycles > 0

\* C12: in every state from the start of the loop onward, COND is exactly one
\* of N = 0b100, Z = 0b010, P = 0b001 (never 0, never a combination).
C12_CondIsOneFlag ==
    Started => reg[R_COND] \in {4, 2, 1}

\* C13: when the first instruction is fetched, whatever image was loaded,
\* R0..R7 are all 0, the PC the fetch uses is 0x3000, COND is Z and running is
\* true.
C13_FirstFetch ==
    (pos = "execute" /\ cycles = 1)
    => /\ \A r \in 0..7 : reg[r] = 0
       /\ fetched = 12288
       /\ reg[R_COND] = 2
       /\ running = TRUE

\* C13's case: the first instruction, from a loaded image, has been fetched.
C13_Witness ==
    pos = "execute" /\ cycles = 1 /\ instr # 0 /\ fetched = 12288

\* C14: ADD and AND take as second operand R[SR2] (SR2 = bits [2:0]) when bit 5
\* is 0 and the 5-bit immediate sign-extended to 16 bits when bit 5 is 1; R[DR]
\* receives (R[SR1] + operand) mod 2^16 for ADD and the bitwise AND of R[SR1]
\* and operand for AND, the operands read before DR is written (so also when
\* DR = SR1 or DR = SR2).
C14_AddAnd ==
    [][(pos = "execute" /\ op \in {OP_ADD, OP_AND} /\ pos' = "loop")
       => LET DR == (instr \div 512) % 8
              SR1 == (instr \div 64) % 8
              SR2 == instr % 8
              operand == IF (instr \div 32) % 2 = 0 THEN reg[SR2]
                         ELSE Signed(5) % 65536
          IN reg'[DR] = IF op = OP_ADD THEN (reg[SR1] + operand) % 65536
                        ELSE BitAnd(reg[SR1], operand)]_vars

\* C14's case: ADD R0, R0, R1 (DR = SR1) has run with R0 = R1 = 0x8000, the sum
\* wrapping to 0.
C14_Witness ==
    /\ pos = "loop" /\ cycles > 0
    /\ instr = 4097
    /\ reg[1] = 32768
    /\ reg[0] = 0

\* C15: BR sets PC to (post-fetch PC + sign-extended PCoffset9) mod 2^16 if and
\* only if (nzp AND COND) is nonzero and otherwise leaves PC at the post-fetch
\* value; BR with nzp = 0b111 is always taken and BR with nzp = 0b000 never.
C15_BranchRule ==
    (pos = "loop" /\ cycles > 0 /\ op = OP_BR)
    => LET nzp == (instr \div 512) % 8
           target == (PostFetchPC + Signed(9)) % 65536
       IN /\ reg[R_PC] = IF BitAnd(nzp, reg[R_COND]) # 0 THEN target
                          ELSE PostFetchPC
          /\ nzp = 7 => reg[R_PC] = target
          /\ nzp = 0 => reg[R_PC] = PostFetchPC

\* C16: JSR/JSRR sets R7 to the post-fetch PC; then, if bit 11 is 1, PC becomes
\* (post-fetch PC + sign-extended PCoffset11) mod 2^16, and if bit 11 is 0, PC
\* becomes R[BaseR], BaseR = bits [8:6], read after R7 has been written.
C16_JsrLinksThenJumps ==
    [][(pos = "execute" /\ op = OP_JSR /\ pos' = "loop")
       => /\ reg'[R_R7] = PostFetchPC
          /\ reg'[R_PC] =
                IF (instr \div 2048) % 2 = 1
                THEN (PostFetchPC + Signed(11)) % 65536
                ELSE [reg EXCEPT ![7] = PostFetchPC][(instr \div 64) % 8]]_vars

\* C16's case: JSRR R1 fetched at 0x3000 with R1 = 0x8000 has run.
C16_Witness ==
    /\ pos = "loop" /\ cycles > 0
    /\ instr = 16448
    /\ reg[R_PC] = 32768
    /\ reg[R_R7] = 12289

\* The address LDI and STI find their pointer at, as the specification defines
\* it: post-fetch PC + sign-extended PCoffset9, a 16-bit address.
PointerAddress == (PostFetchPC + Signed(9)) % 65536

\* C17: LDI loads R[DR] with MEM[MEM[post-fetch PC + sign-extended PCoffset9]]
\* and STI stores R[DR] to the cell at that address; both complete.
C17_Indirect ==
    [][(pos = "execute" /\ op \in {OP_LDI, OP_STI} /\ pos' # "execute")
       => LET DR == (instr \div 512) % 8
              target == MemAt(memory, PointerAddress)
          IN /\ pos' = "loop"
             /\ op = OP_LDI => reg'[DR] = MemAt(memory, target)
             /\ op = OP_STI => MemAt(memory', target) = reg[DR]]_vars

\* C18: on a stdin error or end of input during GETC or IN, R0 is 0 and COND is
\* Z; on a successful read R0 holds the byte, a value in 0..255.
C18_InputErrorGivesZero ==
    [][(pos = "execute" /\ op = OP_TRAP /\ trapvect \in {TRAP_GETC, TRAP_IN}
          /\ pos' \in {"loop", "aborted", "crashed"})
       => IF stdin = <<>>
          THEN reg'[R_R0] = 0 /\ reg'[R_COND] = 2
          ELSE reg'[R_R0] = Head(stdin) /\ reg'[R_R0] \in 0..255]_vars

\* C19: after the IN trap reads byte b, R0 = b and COND is the flag of the
\* value of R0 itself: Z if it is 0, N if its bit 15 is set, else P.
C19_InFlagsFromR0 ==
    [][(pos = "execute" /\ op = OP_TRAP /\ trapvect = TRAP_IN /\ stdin # <<>>
          /\ pos' \in {"loop", "aborted", "crashed"})
       => /\ reg'[R_R0] = Head(stdin)
          /\ reg'[R_COND] = (IF reg'[R_R0] = 0 THEN 2
                             ELSE IF reg'[R_R0] >= 32768 THEN 4
                             ELSE 1)]_vars

\* The low bytes of the words at a, a + 1, ... up to the first zero word.
RECURSIVE StringAt(_)
StringAt(a) ==
    IF MemAt(memory, a) = 0 THEN <<>>
    ELSE <<MemAt(memory, a) % 256>> \o StringAt((a + 1) % 65536)

\* C20: the PUTS trap writes to stdout exactly the low 8 bits of each word at
\* R0, R0 + 1, ... up to but not including the first zero word, and nothing
\* else appears on stdout for that instruction.
C20_PutsWritesTheString ==
    (cycles > 0 /\ pos \in {"loop", "aborted", "crashed"}
       /\ op = OP_TRAP /\ trapvect = TRAP_PUTS)
    => out = StringAt(reg[R_R0])

\* C21: PUTS and PUTSP always end and never read outside memory: with no zero
\* word from R0 to 0xFFFF the scan stops after 0xFFFF as if one had been found.
C21_ScanStaysInMemory ==
    (cycles > 0 /\ pos \in {"loop", "aborted", "crashed"}
       /\ op = OP_TRAP /\ trapvect \in {TRAP_PUTS, TRAP_PUTSP})
    => /\ pos # "crashed"
       /\ \A i \in access : i \in 0..65535

\* An element of the output stream that is a byte (and not a line of text).
IsByte(b) == b < 256

\* For the words at a, a + 1, ... up to the first zero word: the low byte of
\* each, followed by its high byte when that is not zero.
RECURSIVE PackedStringAt(_)
PackedStringAt(a) ==
    LET w == MemAt(memory, a)
    IN IF w = 0 THEN <<>>
       ELSE <<w % 256>> \o (IF w \div 256 # 0 THEN <<w \div 256>> ELSE <<>>)
            \o PackedStringAt((a + 1) % 65536)

\* C22: the PUTSP trap writes, for each word from address R0 up to but not
\* including the first zero word, the word's low byte followed by its high
\* byte when the high byte is non-zero, in address order.
C22_PutspWritesPackedString ==
    (cycles > 0 /\ pos \in {"loop", "aborted", "crashed"}
       /\ op = OP_TRAP /\ trapvect = TRAP_PUTSP)
    => SelectSeq(out, IsByte) = PackedStringAt(reg[R_R0])

\* C23: a store of v to MEM[a] by ST, STR or STI followed, with no store to a
\* in between, by a load from MEM[a] by LD, LDR or LDI puts v in the
\* destination register: for a store of R0 at 0x3000 and a load into R1 at
\* 0x3001 that address the same cell, both instructions complete and R1 then
\* holds the value of R0.
C23_StoreThenLoad ==
    /\ pos # "crashed"
    /\ (pos = "loop" /\ cycles > 0 /\ fetched = 12289
          /\ op \in {OP_LD, OP_LDR, OP_LDI})
       => reg[1] = reg[0]

\* The image file being read: its origin and payload words as the file format
\* defines them (big-endian words), and the number of payload words.
FileOrigin == (Head(argv).bytes[1] * 256) + Head(argv).bytes[2]
FileWord(i) ==
    (Head(argv).bytes[(2 * i) + 3] * 256) + Head(argv).bytes[(2 * i) + 4]
FileCount == (Len(Head(argv).bytes) - 2) \div 2

\* main is reading an image file that holds an origin word.
ReadsImage ==
    /\ pos = "read_image" /\ argv # <<>>
    /\ Head(argv).opens /\ Len(Head(argv).bytes) >= 2

\* C24: loading an image with origin o and payload words w[0..n-1] (on the
\* little-endian host the words are decoded for) stores w[i] at address o + i
\* for every i < min(n, 0x10000 - o), for every origin o including 0, and
\* writes no other cell.
C24_ImageStoredAtOrigin ==
    [][(ReadsImage /\ ~bigEndian)
       => LET stored == IF FileCount < 65536 - FileOrigin THEN FileCount
                        ELSE 65536 - FileOrigin
              cells == {FileOrigin + i : i \in 0..(stored - 1)}
          IN /\ \A i \in 0..(stored - 1) :
                   MemAt(memory', FileOrigin + i) = FileWord(i)
             /\ \A a \in (DOMAIN memory \cup DOMAIN memory') \ cells :
                   a \in 0..65535 /\ MemAt(memory', a) = MemAt(memory, a)]_vars

\* C25: with no image argument the process exits with status 2, and on an
\* image that cannot be opened, has no whole origin word, or has no payload
\* after the origin, it exits with status 1; in both cases the console has not
\* been put in raw mode and no instruction has been fetched.
C25_LoadFailuresExit ==
    [][/\ (pos = "main" /\ argv = <<>>)
          => /\ pos' = "exited" /\ exitStatus' = <<2>>
             /\ console' = origMode /\ fdwMode' = 0 /\ cycles' = 0
       /\ (pos = "read_image" /\ argv # <<>>
             /\ (~Head(argv).opens \/ Len(Head(argv).bytes) < 4))
          => /\ pos' = "exited" /\ exitStatus' = <<1>>
             /\ console' = origMode /\ fdwMode' = 0 /\ cycles' = 0]_vars

\* C26: for an image file of bytes b0 b1 b2 b3 ... the origin is b0*256 + b1
\* and the i-th payload word stored in memory is b(2i+2)*256 + b(2i+3), on a
\* host of either byte order (stated for the words that fit between a
\* non-zero origin and the end of memory).
C26_BigEndianWords ==
    [][(ReadsImage /\ FileOrigin # 0)
       => \A i \in 0..(FileCount - 1) :
             FileOrigin + i < 65536
             => MemAt(memory', FileOrigin + i) = FileWord(i)]_vars

\* C27: sign_extend(x, k) returns x when bit k-1 of x is 0, and x with every
\* bit from k upwards set (x OR (0xFFFF << k), cut to 16 bits) when bit k-1 is
\* 1, for every 16-bit x and every k from 1 to 16; with k = 16 that is x.
C27_SignExtend ==
    (pos = "returned")
        => LET x == args[1]
               k == args[2]
           IN  result = <<IF (x \div Pow2(k - 1)) % 2 = 0
                          THEN x
                          ELSE (x % Pow2(k)) + (65536 - Pow2(k))>>

\* sign_extend has returned for a word with bit 15 set and k = 16, and for a
\* negative 5-bit field it would have filled the high bits.
C27_Witness ==
    /\ pos = "returned"
    /\ args = <<\h8001, 16>>
    /\ result = <<\h8001>>

\* C28: once disable_input_buffering has set the console mode, both
\* ENABLE_LINE_INPUT and ENABLE_ECHO_INPUT are clear in it and every other bit
\* is as in the original mode, whatever the original mode was (one with either
\* bit already clear included); and restore_input_buffering would put back
\* exactly the original mode.
C28_RawModeClearsBoth ==
    (pos \in {"FlushConsoleInputBuffer", "boot", "loop", "execute"})
        => /\ BitAnd(console, ENABLE_LINE_INPUT) = 0
           /\ BitAnd(console, ENABLE_ECHO_INPUT) = 0
           /\ BitAnd(console, Not16(BitOr(ENABLE_LINE_INPUT, ENABLE_ECHO_INPUT)))
                = BitAnd(origMode, Not16(BitOr(ENABLE_LINE_INPUT, ENABLE_ECHO_INPUT)))
           /\ restore_input_buffering = origMode

\* The memory cells an executed instruction has changed.
ChangedCells ==
    {a \in DOMAIN memory \cup DOMAIN memory' : MemAt(memory', a) # MemAt(memory, a)}

\* C29: each instruction changes only what its row names. BR, JMP, JSR/JSRR, ST,
\* STR and STI leave COND and R0..R6 unchanged, and R7 too unless the
\* instruction is JSR/JSRR; ADD, AND, NOT, LD, LDR, LDI and LEA leave memory
\* and every general register other than R[DR] unchanged; ST, STR and STI
\* change at most one memory cell and no register other than PC.
C29_FrameEffects ==
    [][(pos = "execute" /\ pos' # "execute")
       => LET DR == (instr \div 512) % 8
          IN /\ op \in {OP_BR, OP_JMP, OP_JSR, OP_ST, OP_STR, OP_STI}
                => \A r \in (R_R0..(R_R7 - 1)) \cup {R_COND} : reg'[r] = reg[r]
             /\ op \in {OP_BR, OP_JMP, OP_ST, OP_STR, OP_STI}
                => reg'[R_R7] = reg[R_R7]
             /\ op \in {OP_ADD, OP_AND, OP_NOT, OP_LD, OP_LDR, OP_LDI, OP_LEA}
                => /\ memory' = memory
                   /\ \A r \in (R_R0..R_R7) \ {DR} : reg'[r] = reg[r]
             /\ op \in {OP_ST, OP_STR, OP_STI}
                => /\ Cardinality(ChangedCells) <= 1
                   /\ \A r \in (0..(R_COUNT - 1)) \ {R_PC} : reg'[r] = reg[r]]_vars

\* C30: JSRR with BaseR = 7 reads R7 after the return address has been written
\* to it: the PC it leaves is the post-fetch PC, the next instruction, and R7
\* holds that address too, whatever it held before.
C30_JsrrR7FallsThrough ==
    [][(/\ pos = "execute" /\ pos' = "loop"
        /\ op = OP_JSR
        /\ (instr \div 2048) % 2 = 0
        /\ (instr \div 64) % 8 = 7)
       => /\ reg'[R_PC] = PostFetchPC
          /\ reg'[R_R7] = PostFetchPC]_vars

\* C30's case: JSRR R7 fetched at 0x3000 with R7 = 0 has run.
C30_Witness ==
    /\ pos = "loop" /\ cycles > 0
    /\ instr = \h41C0
    /\ fetched = \h3000
    /\ reg[R_PC] = \h3001
    /\ reg[R_R7] = \h3001

====
